---- MODULE Spec2Model ----
(***************************************************************************)
(* A model of the graphs crate of nrc/r4cppp (src/graphs/src).             *)
(*                                                                         *)
(* Three modules build the same six-node cyclic graph and traverse it:     *)
(*   rc_graph, rc_refcell_graph : nodes behind Rc<RefCell<Node>>           *)
(*   ref_graph                  : nodes in a TypedArena, edges are &Node   *)
(*                                held in an UnsafeCell<Vec<..>>           *)
(* mod.rs runs the three main functions one after the other.               *)
(*                                                                         *)
(* The heap is modelled explicitly: every node has an identity, a datum    *)
(* and an edge list; every Rc<RefCell<Node>> has a strong count and the    *)
(* RefCell's reader / writer counts.  Local variables holding handles and  *)
(* live Ref / RefMut guards are part of the state, so that drops and the   *)
(* scopes of borrows are steps of the model.                               *)
(***************************************************************************)
EXTENDS Integers, Sequences, FiniteSets, TLC

VARIABLES
    module,     \* the module whose code is running
    pc,         \* position in the driver (index into Program(module))
    heap,       \* node id -> [datum, edges]; DOMAIN heap = nodes ever allocated
    freed,      \* node ids whose memory has been released
    cell,       \* node id -> [strong, readers, writers] (Rc count, RefCell state)
    handles,    \* local variable name -> node id (Rc handles, or & references)
    guards,     \* guard name -> [node, kind] (live Ref / RefMut values)
    arena,      \* "none" | "live" | "dropped" : the TypedArena of ref_graph::main
    stack,      \* call stack of traverse: frames [node, at, i, borrowed]
    seen,       \* the HashSet<&'static str> passed to traverse
    visits,     \* the data the visitor f was called with, in order
    visited,    \* the nodes the visitor f was called on, in order
    before,     \* [visits, cell] recorded when a traversal is entered
    outcome,    \* "running" | a panic
    failed      \* the data on which the visitor panicked

vars == <<module, pc, heap, freed, cell, handles, guards, arena, stack, seen,
          visits, visited, before, outcome, failed>>

----------------------------------------------------------------------------
(* Small helpers over functions and sequences.                             *)

Without(f, k) == [x \in DOMAIN f \ {k} |-> f[x]]

Range(s) == {s[i] : i \in DOMAIN s}

Count(s, x) == Cardinality({i \in DOMAIN s : s[i] = x})

Last(s) == s[Len(s)]

Front(s) == SubSeq(s, 1, Len(s) - 1)

Allocated == DOMAIN heap \ freed

----------------------------------------------------------------------------
(* The modules of the crate, in the order mod.rs runs them.                *)

Modules == <<"rc_graph", "rc_refcell_graph", "ref_graph">>

\* Rc<RefCell<Node>> modules: RefCell checks borrows dynamically.
Checked(m) == m \in {"rc_graph", "rc_refcell_graph", "tests"}

(* init() and main() of rc_graph.rs and rc_refcell_graph.rs, statement by  *)
(* statement (the two files differ only in the name of the edge field).    *)
RcProgram ==
    << [op |-> "new",        var |-> "root", datum |-> "A"],
       [op |-> "new",        var |-> "b",    datum |-> "B"],
       [op |-> "new",        var |-> "c",    datum |-> "C"],
       [op |-> "new",        var |-> "d",    datum |-> "D"],
       [op |-> "new",        var |-> "e",    datum |-> "E"],
       [op |-> "new",        var |-> "f",    datum |-> "F"],
       [op |-> "borrow_mut", guard |-> "mut_root", var |-> "root"],
       [op |-> "push",       guard |-> "mut_root", var |-> "b"],
       [op |-> "push",       guard |-> "mut_root", var |-> "c"],
       [op |-> "push",       guard |-> "mut_root", var |-> "d"],
       [op |-> "borrow_mut", guard |-> "mut_c",    var |-> "c"],
       [op |-> "push",       guard |-> "mut_c",    var |-> "e"],
       [op |-> "push",       guard |-> "mut_c",    var |-> "f"],
       [op |-> "push",       guard |-> "mut_c",    var |-> "root"],
       [op |-> "drop_guard", guard |-> "mut_c"],
       [op |-> "drop_guard", guard |-> "mut_root"],
       [op |-> "move",       var |-> "root", to |-> "g"],
       [op |-> "drop_local", var |-> "f"],
       [op |-> "drop_local", var |-> "e"],
       [op |-> "drop_local", var |-> "d"],
       [op |-> "drop_local", var |-> "c"],
       [op |-> "drop_local", var |-> "b"],
       [op |-> "borrow",     guard |-> "g_ref", var |-> "g"],
       [op |-> "traverse",   recv |-> "g_ref"],
       [op |-> "first",      recv |-> "g_ref", to |-> "f"],
       [op |-> "borrow",     guard |-> "tmp", var |-> "f"],
       [op |-> "foo",        recv |-> "tmp"],
       [op |-> "drop_guard", guard |-> "tmp"],
       [op |-> "drop_local", var |-> "f"],
       [op |-> "drop_guard", guard |-> "g_ref"],
       [op |-> "drop_local", var |-> "g"] >>

(* init() and main() of ref_graph.rs.                                      *)
RefProgram ==
    << [op |-> "arena_new"],
       [op |-> "alloc",      var |-> "root", datum |-> "A"],
       [op |-> "alloc",      var |-> "b",    datum |-> "B"],
       [op |-> "alloc",      var |-> "c",    datum |-> "C"],
       [op |-> "alloc",      var |-> "d",    datum |-> "D"],
       [op |-> "alloc",      var |-> "e",    datum |-> "E"],
       [op |-> "alloc",      var |-> "f",    datum |-> "F"],
       [op |-> "push_raw",   on |-> "root", var |-> "b"],
       [op |-> "push_raw",   on |-> "root", var |-> "c"],
       [op |-> "push_raw",   on |-> "root", var |-> "d"],
       [op |-> "push_raw",   on |-> "c",    var |-> "e"],
       [op |-> "push_raw",   on |-> "c",    var |-> "f"],
       [op |-> "push_raw",   on |-> "c",    var |-> "root"],
       [op |-> "move",       var |-> "root", to |-> "g"],
       [op |-> "drop_local", var |-> "f"],
       [op |-> "drop_local", var |-> "e"],
       [op |-> "drop_local", var |-> "d"],
       [op |-> "drop_local", var |-> "c"],
       [op |-> "drop_local", var |-> "b"],
       [op |-> "traverse",   recv |-> "g"],
       [op |-> "first",      recv |-> "g", to |-> "f"],
       [op |-> "foo",        recv |-> "f"],
       [op |-> "drop_local", var |-> "f"],
       [op |-> "drop_local", var |-> "g"],
       [op |-> "arena_drop"] >>

(* A caller of the Rc<RefCell<Node>> code on a graph of its own: it borrows *)
(* the start node as main does, traverses twice, each time with a fresh    *)
(* seen set, and asks for the first edge.                                  *)
TestProgram ==
    << [op |-> "borrow",     guard |-> "g_ref", var |-> "g"],
       [op |-> "traverse",   recv |-> "g_ref"],
       [op |-> "traverse",   recv |-> "g_ref"],
       [op |-> "first",      recv |-> "g_ref", to |-> "f"] >>

(* The same caller of the arena code of ref_graph.rs: g is a plain &Node.  *)
RefTestProgram ==
    << [op |-> "traverse",   recv |-> "g"],
       [op |-> "traverse",   recv |-> "g"],
       [op |-> "first",      recv |-> "g", to |-> "f"] >>

Program(m) ==
    CASE m = "tests"     -> TestProgram
      [] m = "ref_tests" -> RefTestProgram
      [] Checked(m)      -> RcProgram
      [] OTHER           -> RefProgram

\* The statement the driver is at, or a record with op "end".
Ins == IF pc \in DOMAIN Program(module) THEN Program(module)[pc]
       ELSE [op |-> "end"]

\* The node a receiver expression denotes: through a Ref guard in the Rc
\* modules (g.borrow() then g.traverse), a plain reference in ref_graph.
Recv(name) == IF Checked(module) THEN guards[name].node ELSE handles[name]

Running == outcome = "running" /\ stack = <<>>

----------------------------------------------------------------------------
(* Rc<T> and RefCell<T> (std): the strong count, and the dynamically        *)
(* checked borrow state, of one Rc<RefCell<Node>>.                          *)

\* Bound on the depth of the recursion of traverse (the thread's stack).
MaxDepth == 8

NewCell == [strong |-> 1, readers |-> 0, writers |-> 0]

NoCell == [strong |-> 0, readers |-> 0, writers |-> 0]

\* A handle copied without Rc::clone: the count is not raised.
CloneUncounted(c, n) == c

\* Rc::clone: one more strong reference.
Clone(c, n) == [c EXCEPT ![n].strong = @ + 1]

\* RefCell::borrow succeeds unless the value is mutably borrowed.
CanBorrow(n) == cell[n].writers = 0

\* A cell that does not check, as UnsafeCell: the borrow always succeeds.
CanBorrowMutUnchecked(n) == TRUE

\* RefCell::borrow_mut succeeds only if there is no live borrow at all.
CanBorrowMut(n) == cell[n].readers = 0 /\ cell[n].writers = 0

\* n.clone().borrow() kept alive: a borrow that also takes a strong reference.
BorrowCloning(c, n) == [c EXCEPT ![n].readers = @ + 1, ![n].strong = @ + 1]

Borrow(c, n) == [c EXCEPT ![n].readers = @ + 1]

BorrowMut(c, n) == [c EXCEPT ![n].writers = @ + 1]

\* A Ref that is leaked (mem::forget) instead of dropped.
ReleaseForgotten(c, n) == c

\* Dropping a Ref / a RefMut.
Release(c, n) == [c EXCEPT ![n].readers = @ - 1]

ReleaseMut(c, n) == [c EXCEPT ![n].writers = @ - 1]

(* Dropping one Rc handle of node n: the strong count goes down by one; at *)
(* zero the Node is dropped, and with it its Vec of handles, one by one.   *)
(* st is [cell, freed]; the result is the state after the drop.            *)
RECURSIVE DropStrong(_, _)
RECURSIVE DropAll(_, _)
DropStrong(st, n) ==
    LET c1 == [st.cell EXCEPT ![n].strong = @ - 1]
    IN  IF c1[n].strong = 0 /\ n \notin st.freed
        THEN DropAll([cell |-> c1, freed |-> st.freed \cup {n}], heap[n].edges)
        ELSE [cell |-> c1, freed |-> st.freed]

DropAll(st, es) ==
    IF es = <<>> THEN st
    ELSE DropAll(DropStrong(st, Head(es)), Tail(es))

----------------------------------------------------------------------------
(* The statements of init() and main().                                    *)

Goto(p) == pc' = p

\* Node::new(datum): Rc::new(RefCell::new(Node { datum, edges: Vec::new() }))
New ==
    /\ Running /\ Ins.op = "new"
    /\ LET id == Cardinality(DOMAIN heap) + 1
       IN  /\ heap' = heap @@ (id :> [datum |-> Ins.datum, edges |-> <<>>,
                                      arena |-> FALSE])
           /\ cell' = cell @@ (id :> NewCell)
           /\ handles' = handles @@ (Ins.var :> id)
    /\ Goto(pc + 1)
    /\ UNCHANGED <<module, freed, guards, arena, stack, seen, visits, visited,
                   before, outcome, failed>>

\* let mut mut_x = x.borrow_mut();  panics with "already borrowed" when the
\* RefCell has a live borrow.
BorrowMutStmt ==
    /\ Running /\ Ins.op = "borrow_mut"
    /\ LET n == handles[Ins.var]
       IN  IF CanBorrowMut(n)
           THEN /\ cell' = BorrowMut(cell, n)
                /\ guards' = guards @@ (Ins.guard :> [node |-> n, kind |-> "mut"])
                /\ Goto(pc + 1)
                /\ UNCHANGED outcome
           ELSE /\ outcome' = "BorrowMutError"
                /\ UNCHANGED <<cell, guards, pc>>
    /\ UNCHANGED <<module, heap, freed, handles, arena, stack, seen, visits,
                   visited, before, failed>>

\* mut_x.edges.push(y.clone());
Push ==
    /\ Running /\ Ins.op = "push"
    /\ LET n == guards[Ins.guard].node
           t == handles[Ins.var]
       IN  /\ heap' = [heap EXCEPT ![n].edges = Append(@, t)]
           /\ cell' = Clone(cell, t)
    /\ Goto(pc + 1)
    /\ UNCHANGED <<module, freed, handles, guards, arena, stack, seen, visits,
                   visited, before, outcome, failed>>

\* A Ref or RefMut goes out of scope.
DropGuard ==
    /\ Running /\ Ins.op = "drop_guard"
    /\ LET g == guards[Ins.guard]
       IN  /\ cell' = IF g.kind = "mut" THEN ReleaseMut(cell, g.node)
                      ELSE Release(cell, g.node)
           /\ guards' = Without(guards, Ins.guard)
    /\ Goto(pc + 1)
    /\ UNCHANGED <<module, heap, freed, handles, arena, stack, seen, visits,
                   visited, before, outcome, failed>>

\* init returns root: the handle moves into main's g.
Move ==
    /\ Running /\ Ins.op = "move"
    /\ handles' = Without(handles, Ins.var) @@ (Ins.to :> handles[Ins.var])
    /\ Goto(pc + 1)
    /\ UNCHANGED <<module, heap, freed, cell, guards, arena, stack, seen,
                   visits, visited, before, outcome, failed>>

\* A local handle goes out of scope: an Rc is dropped, a & just ends.
DropLocal ==
    /\ Running /\ Ins.op = "drop_local"
    /\ LET n  == handles[Ins.var]
           st == IF Checked(module)
                 THEN DropStrong([cell |-> cell, freed |-> freed], n)
                 ELSE [cell |-> cell, freed |-> freed]
       IN  /\ cell' = st.cell
           /\ freed' = st.freed
    /\ handles' = Without(handles, Ins.var)
    /\ Goto(pc + 1)
    /\ UNCHANGED <<module, heap, guards, arena, stack, seen, visits, visited,
                   before, outcome, failed>>

\* let g = g.borrow();  /  f.borrow()  panics when mutably borrowed.
BorrowStmt ==
    /\ Running /\ Ins.op = "borrow"
    /\ LET n == handles[Ins.var]
       IN  IF CanBorrow(n)
           THEN /\ cell' = Borrow(cell, n)
                /\ guards' = guards @@ (Ins.guard :> [node |-> n, kind |-> "ref"])
                /\ Goto(pc + 1)
                /\ UNCHANGED outcome
           ELSE /\ outcome' = "BorrowError"
                /\ UNCHANGED <<cell, guards, pc>>
    /\ UNCHANGED <<module, heap, freed, handles, arena, stack, seen, visits,
                   visited, before, failed>>

\* The first frame of traverse, entered with a fresh, empty seen set.
Enter(n) ==
    /\ stack' = <<[node |-> n, at |-> "check", i |-> 1, borrowed |-> FALSE]>>
    /\ seen' = {}
    /\ visits' = <<>>
    /\ visited' = <<>>
    /\ before' = [visits |-> visits, cell |-> cell]

\* g.traverse(&|d| println!("{}", d), &mut HashSet::new());
CallTraverse ==
    /\ Running /\ Ins.op = "traverse"
    /\ Enter(Recv(Ins.recv))
    /\ UNCHANGED <<module, pc, heap, freed, cell, handles, guards, arena,
                   outcome, failed>>

\* first(): self.edges[0], cloned in the Rc modules.  Indexing a Vec checks
\* the bound and panics.
FirstOf(n, to) ==
    IF Len(heap[n].edges) = 0
    THEN /\ outcome' = "IndexOutOfBounds"
         /\ UNCHANGED <<handles, cell, pc>>
    ELSE /\ handles' = handles @@ (to :> heap[n].edges[1])
         /\ cell' = IF Checked(module) THEN Clone(cell, heap[n].edges[1])
                    ELSE cell
         /\ Goto(pc + 1)
         /\ UNCHANGED outcome

First ==
    /\ Running /\ Ins.op = "first"
    /\ FirstOf(Recv(Ins.recv), Ins.to)
    /\ UNCHANGED <<module, heap, freed, guards, arena, stack, seen, visits,
                   visited, before, failed>>

\* foo(node): prints node.datum.
Foo ==
    /\ Running /\ Ins.op = "foo"
    /\ Recv(Ins.recv) \in DOMAIN heap
    /\ Goto(pc + 1)
    /\ UNCHANGED <<module, heap, freed, cell, handles, guards, arena, stack,
                   seen, visits, visited, before, outcome, failed>>

\* let arena = TypedArena::new();
ArenaNew ==
    /\ Running /\ Ins.op = "arena_new"
    /\ arena' = "live"
    /\ Goto(pc + 1)
    /\ UNCHANGED <<module, heap, freed, cell, handles, guards, stack, seen,
                   visits, visited, before, outcome, failed>>

\* Node::new(datum, arena): arena.alloc(Node { .. })
Alloc ==
    /\ Running /\ Ins.op = "alloc" /\ arena = "live"
    /\ LET id == Cardinality(DOMAIN heap) + 1
       IN  /\ heap' = heap @@ (id :> [datum |-> Ins.datum, edges |-> <<>>,
                                      arena |-> TRUE])
           /\ cell' = cell @@ (id :> NoCell)
           /\ handles' = handles @@ (Ins.var :> id)
    /\ Goto(pc + 1)
    /\ UNCHANGED <<module, freed, guards, arena, stack, seen, visits, visited,
                   before, outcome, failed>>

\* (*x.edges.get()).push(y);  no check of any kind.
PushRaw ==
    /\ Running /\ Ins.op = "push_raw"
    /\ heap' = [heap EXCEPT ![handles[Ins.on]].edges = Append(@, handles[Ins.var])]
    /\ Goto(pc + 1)
    /\ UNCHANGED <<module, freed, cell, handles, guards, arena, stack, seen,
                   visits, visited, before, outcome, failed>>

\* The arena goes out of scope at the end of main: every node it owns goes.
ArenaDrop ==
    /\ Running /\ Ins.op = "arena_drop"
    /\ arena' = "dropped"
    /\ freed' = freed \cup {n \in DOMAIN heap : heap[n].arena}
    /\ Goto(pc + 1)
    /\ UNCHANGED <<module, heap, cell, handles, guards, stack, seen, visits,
                   visited, before, outcome, failed>>

\* mod.rs: main calls the next module's main.
NextModule ==
    /\ Running /\ Ins.op = "end"
    /\ \E k \in 1..(Len(Modules) - 1) :
          /\ module = Modules[k]
          /\ module' = Modules[k + 1]
    /\ Goto(1)
    /\ UNCHANGED <<heap, freed, cell, handles, guards, arena, stack, seen,
                   visits, visited, before, outcome, failed>>

----------------------------------------------------------------------------
(* Node::traverse, one step per statement.  A frame is at "check" (the     *)
(* seen.contains test), "visit" (the call of f), "insert" (seen.insert) or *)
(* "loop" (the for loop over the edges, i the next index).                 *)

Top == Last(stack)

Traversing == outcome = "running" /\ stack # <<>>

\* The test left out: no node is ever taken for seen.
ContainsNever(s, d) == FALSE

\* seen.contains(&self.datum)
Contains(s, d) == d \in s

\* The insert left out: seen never grows.
InsertNothing(s, d) == s

\* seen.insert(self.datum)
Insert(s, d) == s \cup {d}

\* seen.insert(self.datum) placed before f(self.datum).
NextAtInsertFirst(at) ==
    CASE at = "check"  -> "insert"
      [] at = "insert" -> "visit"
      [] at = "visit"  -> "loop"

\* The order of the statements of the body after the test.
NextAt(at) ==
    CASE at = "check"  -> "visit"
      [] at = "visit"  -> "insert"
      [] at = "insert" -> "loop"

\* The loop running over the Vec from its end: .iter().rev()
EdgeAtReversed(n, i) == heap[n].edges[Len(heap[n].edges) + 1 - i]

\* The edge the for loop yields at index i: the Vec in order.
EdgeAt(n, i) == heap[n].edges[i]

SetTop(f) == stack' = [stack EXCEPT ![Len(stack)] = f]

\* The current call returns; the temporary Ref the caller borrowed for it
\* is dropped at the end of the caller's statement.  When the outermost
\* call returns the driver goes on.
Return ==
    /\ stack' = Front(stack)
    /\ cell' = IF Top.borrowed THEN Release(cell, Top.node) ELSE cell
    /\ pc' = IF Len(stack) = 1 THEN pc + 1 ELSE pc

\* The visitor is not in the middle of a statement of its own.
VisitorIdle == "v_mut" \notin DOMAIN guards

\* if seen.contains(&self.datum) { return; }
TrCheck ==
    /\ Traversing /\ Top.at = "check"
    /\ IF Contains(seen, heap[Top.node].datum)
       THEN Return
       ELSE /\ SetTop([Top EXCEPT !.at = NextAt("check")])
            /\ UNCHANGED <<cell, pc>>
    /\ UNCHANGED <<module, heap, freed, handles, guards, arena, seen, visits,
                   visited, before, outcome, failed>>

\* f(self.datum);  the visitor returns.
TrVisit ==
    /\ Traversing /\ Top.at = "visit" /\ VisitorIdle
    /\ visits' = Append(visits, heap[Top.node].datum)
    /\ visited' = Append(visited, Top.node)
    /\ SetTop([Top EXCEPT !.at = NextAt("visit")])
    /\ UNCHANGED <<module, pc, heap, freed, cell, handles, guards, arena,
                   seen, before, outcome, failed>>

\* seen.insert(self.datum);
TrInsert ==
    /\ Traversing /\ Top.at = "insert"
    /\ seen' = Insert(seen, heap[Top.node].datum)
    /\ SetTop([Top EXCEPT !.at = NextAt("insert")])
    /\ UNCHANGED <<module, pc, heap, freed, cell, handles, guards, arena,
                   visits, visited, before, outcome, failed>>

\* for n in &self.edges { n.borrow().traverse(f, seen); }   (Rc modules)
\* for n in &(*self.edges.get()) { n.traverse(f, seen); }    (ref_graph)
TrCall ==
    /\ Traversing /\ Top.at = "loop" /\ Top.i <= Len(heap[Top.node].edges)
    /\ LET n == EdgeAt(Top.node, Top.i)
           callee == [node |-> n, at |-> "check", i |-> 1,
                      borrowed |-> Checked(module)]
       IN  IF Len(stack) >= MaxDepth
           THEN /\ outcome' = "StackOverflow"
                /\ UNCHANGED <<stack, cell>>
           ELSE IF Checked(module) /\ ~CanBorrow(n)
           THEN /\ outcome' = "BorrowError"
                /\ UNCHANGED <<stack, cell>>
           ELSE /\ stack' = Append([stack EXCEPT ![Len(stack)].i = @ + 1], callee)
                /\ cell' = IF Checked(module) THEN Borrow(cell, n) ELSE cell
                /\ UNCHANGED outcome
    /\ UNCHANGED <<module, pc, heap, freed, handles, guards, arena, seen,
                   visits, visited, before, failed>>

\* The for loop is exhausted: the call returns.
TrReturn ==
    /\ Traversing /\ Top.at = "loop" /\ Top.i > Len(heap[Top.node].edges)
    /\ Return
    /\ UNCHANGED <<module, heap, freed, handles, guards, arena, seen, visits,
                   visited, before, outcome, failed>>

Traverse == TrCheck \/ TrVisit \/ TrInsert \/ TrCall \/ TrReturn

----------------------------------------------------------------------------
(* Visitors other than println: traverse is generic in F: Fn(&'static str), *)
(* and a closure may panic, or hold handles of the graph and use them.     *)

\* Bound on the edges a visitor adds during one run.
MaxAppends == 1

\* f(self.datum) panics.
VisitFail ==
    /\ Traversing /\ Top.at = "visit" /\ VisitorIdle
    /\ outcome' = "VisitorFailure"
    /\ failed' = Append(failed, heap[Top.node].datum)
    /\ UNCHANGED <<module, pc, heap, freed, cell, handles, guards, arena,
                   stack, seen, visits, visited, before>>

\* A panic unwinds one frame of traverse: its locals are dropped, the
\* temporary Ref of the call among them, and nothing else of it runs.
Unwind ==
    /\ outcome # "running" /\ stack # <<>>
    /\ stack' = Front(stack)
    /\ cell' = IF Top.borrowed THEN Release(cell, Top.node) ELSE cell
    /\ UNCHANGED <<module, pc, heap, freed, handles, guards, arena, seen,
                   visits, visited, before, outcome, failed>>

RECURSIVE LenSum(_)
LenSum(S) ==
    IF S = {} THEN 0
    ELSE LET m == CHOOSE x \in S : TRUE
         IN  Len(heap[m].edges) + LenSum(S \ {m})

\* The number of edges of the graph.
TotalEdges == LenSum(DOMAIN heap)

\* The edges init pushes.
InitEdges == Cardinality({i \in DOMAIN RcProgram : RcProgram[i].op = "push"})

\* Inside f: x.borrow_mut() on a handle x of node n the closure holds.
VisitBorrowMut(n) ==
    /\ Traversing /\ Top.at = "visit" /\ VisitorIdle
    /\ IF CanBorrowMut(n)
       THEN /\ TotalEdges < InitEdges + MaxAppends
            /\ cell' = BorrowMut(cell, n)
            /\ guards' = guards @@ ("v_mut" :> [node |-> n, kind |-> "mut"])
            /\ UNCHANGED outcome
       ELSE /\ outcome' = "BorrowMutError"
            /\ UNCHANGED <<cell, guards>>
    /\ UNCHANGED <<module, pc, heap, freed, handles, arena, stack, seen,
                   visits, visited, before, failed>>

\* Inside f: .edges.push(y.clone()) on the RefMut, which is dropped at the
\* end of the statement; then f returns.
VisitPush(t) ==
    /\ Traversing /\ Top.at = "visit" /\ ~VisitorIdle
    /\ LET n == guards["v_mut"].node
       IN  /\ heap' = [heap EXCEPT ![n].edges = Append(@, t)]
           /\ cell' = ReleaseMut(Clone(cell, t), n)
    /\ guards' = Without(guards, "v_mut")
    /\ visits' = Append(visits, heap[Top.node].datum)
    /\ visited' = Append(visited, Top.node)
    /\ SetTop([Top EXCEPT !.at = NextAt("visit")])
    /\ UNCHANGED <<module, pc, freed, handles, arena, seen, before, outcome,
                   failed>>

----------------------------------------------------------------------------
(* The program: mod.rs main.                                               *)

Empty == [x \in {} |-> 0]

\* Nothing allocated, nothing borrowed, no call in progress.
Fresh ==
    /\ pc = 1
    /\ heap = Empty
    /\ freed = {}
    /\ cell = Empty
    /\ handles = Empty
    /\ guards = Empty
    /\ arena = "none"
    /\ stack = <<>>
    /\ seen = {}
    /\ visits = <<>>
    /\ visited = <<>>
    /\ before = [visits |-> <<>>, cell |-> Empty]
    /\ outcome = "running"
    /\ failed = <<>>

Init == module = Modules[1] /\ Fresh

Next ==
    \/ New \/ BorrowMutStmt \/ Push \/ DropGuard \/ Move \/ DropLocal
    \/ BorrowStmt \/ CallTraverse \/ First \/ Foo
    \/ ArenaNew \/ Alloc \/ PushRaw \/ ArenaDrop \/ NextModule
    \/ TrCheck \/ TrVisit \/ TrInsert \/ TrCall \/ TrReturn

Spec == Init /\ [][Next]_vars

----------------------------------------------------------------------------
(* Any finite rooted graph, as a sequence of add-edge calls builds it: the *)
(* caller holds one handle per node, and g, the start node.  Node 1 is the *)
(* start node; an edge is pushed onto a node already reached from it, and  *)
(* points to a node already reached or to the next new one, so that every  *)
(* rooted graph is built once up to the numbering of its nodes.  The nodes *)
(* never reached stay without edges, unreachable.                          *)

MaxNodes == 3

MaxEdges == 3

Nodes == 1..MaxNodes

Data == <<"A", "B", "C", "D", "E", "F", "G", "H">>

\* traverse compares data for equality only, so the assignments of data to
\* nodes are taken up to renaming: node n carries one of the data of the
\* nodes before it, or the next unused one.
Labelings ==
    {l \in [Nodes -> 1..MaxNodes] :
        /\ l[1] = 1
        /\ \A n \in Nodes \ {1} : \E m \in 1..(n - 1) :
              /\ l[n] <= l[m] + 1
              /\ \A j \in 1..(n - 1) : l[j] <= l[m]}

\* The highest node the pushes ps, each <<source, target>>, have reached.
RECURSIVE Reached(_)
Reached(ps) ==
    IF ps = <<>> THEN 1
    ELSE LET r == Reached(Front(ps))
         IN  IF Last(ps)[2] > r THEN Last(ps)[2] ELSE r

RECURSIVE PushesOf(_)
PushesOf(k) ==
    IF k = 0 THEN {<<>>}
    ELSE LET shorter == PushesOf(k - 1)
         IN  shorter \cup
             UNION {{Append(ps, <<s, t>>) :
                        s \in 1..Reached(ps),
                        t \in {x \in Nodes : x <= Reached(ps) + 1}} :
                    ps \in {q \in shorter : Len(q) = k - 1}}

Pushes == PushesOf(MaxEdges)

\* The edge list of n after the pushes ps.
RECURSIVE EdgesAfter(_, _)
EdgesAfter(ps, n) ==
    IF ps = <<>> THEN <<>>
    ELSE LET rest == EdgesAfter(Front(ps), n)
         IN  IF Last(ps)[1] = n THEN Append(rest, Last(ps)[2]) ELSE rest

HandleName(n) == "n" \o ToString(n)

InitGen ==
    /\ module \in {"tests", "ref_tests"}
    /\ pc = 1
    /\ \E l \in Labelings, ps \in Pushes :
          /\ heap = [n \in Nodes |-> [datum |-> Data[l[n]],
                                      edges |-> EdgesAfter(ps, n),
                                      arena |-> ~Checked(module)]]
          /\ cell = [n \in Nodes |->
                       IF Checked(module)
                       THEN [strong |-> 1 + Cardinality({i \in DOMAIN ps : ps[i][2] = n})
                                          + (IF n = 1 THEN 1 ELSE 0),
                             readers |-> 0, writers |-> 0]
                       ELSE NoCell]
    /\ handles = [h \in {HandleName(n) : n \in Nodes} \cup {"g"} |->
                    IF h = "g" THEN 1
                    ELSE CHOOSE n \in Nodes : HandleName(n) = h]
    /\ freed = {}
    /\ guards = Empty
    /\ arena = IF Checked(module) THEN "none" ELSE "live"
    /\ stack = <<>>
    /\ seen = {}
    /\ visits = <<>>
    /\ visited = <<>>
    /\ before = [visits |-> <<>>, cell |-> Empty]
    /\ outcome = "running"
    /\ failed = <<>>

NextGen ==
    \/ BorrowStmt \/ CallTraverse \/ First
    \/ TrCheck \/ TrVisit \/ TrInsert \/ TrCall \/ TrReturn

SpecGen == InitGen /\ [][NextGen]_vars

\* traverse runs to completion once called: there is no suspension point.
SpecLive == InitGen /\ [][NextGen]_vars /\ WF_vars(NextGen)

(* The same caller with a visitor that may panic on any node.              *)
NextFail ==
    \/ BorrowStmt \/ CallTraverse \/ First
    \/ TrCheck \/ TrVisit \/ TrInsert \/ TrCall \/ TrReturn
    \/ VisitFail \/ Unwind

SpecFail == InitGen /\ [][NextFail]_vars

(* main of an Rc module with a visitor that holds handles of the graph and *)
(* tries to add an edge while the traversal runs.                          *)
InitReent == module \in {"rc_graph", "rc_refcell_graph"} /\ Fresh

NextReent ==
    \/ New \/ BorrowMutStmt \/ Push \/ DropGuard \/ Move \/ DropLocal
    \/ BorrowStmt \/ CallTraverse \/ First \/ Foo
    \/ TrCheck \/ TrVisit \/ TrInsert \/ TrCall \/ TrReturn
    \/ (\E n \in Allocated : VisitBorrowMut(n))
    \/ (\E t \in Allocated : VisitPush(t))
    \/ Unwind

SpecReent == InitReent /\ [][NextReent]_vars

----------------------------------------------------------------------------
(* Vocabulary of the properties.                                           *)

IsPrefix(s, t) == Len(s) <= Len(t) /\ s = SubSeq(t, 1, Len(s))

\* The indices of the calls of traverse in the running program, and the
\* first and the last of them.
TraverseCalls == {i \in DOMAIN Program(module) : Program(module)[i].op = "traverse"}

TraverseAt == CHOOSE i \in TraverseCalls : \A j \in TraverseCalls : i <= j

LastTraverseAt == CHOOSE i \in TraverseCalls : \A j \in TraverseCalls : j <= i

\* The (first) traversal of the running program has returned.
Traversed == outcome = "running" /\ stack = <<>> /\ pc > TraverseAt

\* The data of the targets of n's edges, in list order.
Shape(n) == [i \in DOMAIN heap[n].edges |-> heap[heap[n].edges[i]].datum]

\* The number of nodes init creates.
InitNodes == Cardinality({i \in DOMAIN RcProgram : RcProgram[i].op = "new"})

\* The nodes the k-th module allocates.
NodesOf(k) == ((k - 1) * InitNodes + 1) .. (k * InitNodes)

ModuleIndex == CHOOSE k \in DOMAIN Modules : Modules[k] = module

\* The node of the running module that carries datum d.
NodeOf(d) == CHOOSE n \in NodesOf(ModuleIndex) \cap DOMAIN heap : heap[n].datum = d

\* init has wired every edge of the example graph.
Built ==
    /\ NodesOf(ModuleIndex) \subseteq DOMAIN heap
    /\ Shape(NodeOf("A")) = <<"B", "C", "D">>
    /\ Shape(NodeOf("C")) = <<"E", "F", "A">>
    /\ \A d \in {"B", "D", "E", "F"} : Shape(NodeOf(d)) = <<>>

ExpectedOrder == <<"A", "B", "C", "E", "F", "D">>

\* How many local handles, and how many edge-list entries, point to n.
HandleCount(n) == Cardinality({h \in DOMAIN handles : handles[h] = n})

RECURSIVE SumOver(_, _)
SumOver(S, n) ==
    IF S = {} THEN 0
    ELSE LET m == CHOOSE x \in S : TRUE
         IN  Count(heap[m].edges, n) + SumOver(S \ {m}, n)

EdgeCount(n) == SumOver(Allocated, n)

\* How many live Ref / RefMut guards of n there are, the temporaries of
\* the frames of traverse included.
GuardCount(n, kind) ==
    Cardinality({g \in DOMAIN guards : guards[g].node = n /\ guards[g].kind = kind})

FrameCount(n) == Cardinality({i \in DOMAIN stack : stack[i].node = n})

BorrowedFrames(n) ==
    Cardinality({i \in DOMAIN stack : stack[i].node = n /\ stack[i].borrowed})

----------------------------------------------------------------------------
(* C1: on the graph init builds (A -> [B, C, D], C -> [E, F, A]), traverse *)
(* from the root with an empty seen set calls the visitor six times, on    *)
(* A, B, C, E, F, D in that order; the back-edge C -> A gives no second    *)
(* visit of A.  While the traversal runs, the visits are a prefix of that  *)
(* order.                                                                  *)
C1_InitOrder ==
    /\ (pc >= TraverseAt => Built)
    /\ (stack # <<>> => IsPrefix(visits, ExpectedOrder))
    /\ (Traversed => /\ visits = ExpectedOrder
                     /\ [i \in DOMAIN visited |-> heap[visited[i]].datum] = visits
                     /\ Cardinality(Range(visited)) = Len(ExpectedOrder))

C1_Witness ==
    /\ module = "rc_refcell_graph" /\ Traversed /\ Built
    /\ visits = ExpectedOrder
    /\ heap[NodeOf("C")].edges[3] = NodeOf("A")

(* C5 as claimed: once every external handle is dropped, the six nodes of  *)
(* an Rc module are reclaimed.  Drops are synchronous, so when the program *)
(* has run to its end nothing is left allocated.                           *)
C5_NoLeak ==
    (module = Modules[Len(Modules)] /\ Ins.op = "end"
        /\ handles = Empty /\ guards = Empty)
    => \A k \in DOMAIN Modules : Checked(Modules[k]) => NodesOf(k) \subseteq freed

(* C6: no use after free.  Every target of an edge of an allocated node,   *)
(* of a local handle, of a live guard or of a frame of traverse is         *)
(* allocated; the strong count of an Rc node is the number of local        *)
(* handles plus the number of edge-list entries pointing to it; a node of  *)
(* the arena is freed only with the arena, when no reference into it is    *)
(* left; all six nodes of a module exist before its first edge does.       *)
C6_NoUseAfterFree ==
    /\ \A n \in Allocated : Range(heap[n].edges) \subseteq Allocated
    /\ \A h \in DOMAIN handles : handles[h] \in Allocated
    /\ \A g \in DOMAIN guards : guards[g].node \in Allocated
    /\ \A i \in DOMAIN stack : stack[i].node \in Allocated
    /\ \A n \in DOMAIN heap :
          IF heap[n].arena
          THEN (n \in freed) => (arena = "dropped" /\ handles = Empty /\ stack = <<>>)
          ELSE /\ cell[n].strong = HandleCount(n) + EdgeCount(n)
               /\ (n \in freed) <=> (cell[n].strong = 0)
    /\ \A k \in DOMAIN Modules :
          (\E n \in NodesOf(k) \cap DOMAIN heap : heap[n].edges # <<>>)
              => NodesOf(k) \subseteq DOMAIN heap

C6_Witness ==
    /\ module = "rc_refcell_graph" /\ Ins.op = "end"
    /\ cell[NodeOf("A")].strong = 1 /\ cell[NodeOf("B")].strong = 1
    /\ handles = Empty
    /\ \E n \in DOMAIN heap : heap[n].edges # <<>>

(* C10: in the Rc modules neither init nor traverse raises a borrow        *)
(* failure.  RefCell counts agree with the live guards; init holds the     *)
(* RefMut of root and of C together, on distinct nodes; no borrow is live  *)
(* between init and main's g.borrow(); a traversal takes read borrows      *)
(* only, the nodes read-borrowed are those on the call stack (root twice   *)
(* through C's back-edge), and when traverse has returned every count is   *)
(* what it was before the call.                                            *)
C10_NoBorrowFailure ==
    /\ outcome \notin {"BorrowError", "BorrowMutError"}
    /\ \A n \in DOMAIN heap :
          /\ cell[n].writers = GuardCount(n, "mut")
          /\ cell[n].readers = GuardCount(n, "ref") + BorrowedFrames(n)
    /\ "mut_c" \in DOMAIN guards =>
          /\ "mut_root" \in DOMAIN guards
          /\ guards["mut_c"].node # guards["mut_root"].node
          /\ cell[guards["mut_c"].node].writers = 1
          /\ cell[guards["mut_root"].node].writers = 1
    /\ (Checked(module) /\ Ins.op \in {"move", "drop_local"} /\ pc < TraverseAt)
          => \A n \in DOMAIN heap : cell[n].readers = 0 /\ cell[n].writers = 0
    /\ (Checked(module) /\ stack # <<>>) =>
          \A n \in DOMAIN heap :
              /\ cell[n].writers = 0
              /\ cell[n].readers = FrameCount(n)
    /\ (Checked(module) /\ Traversed /\ pc = TraverseAt + 1) => cell = before.cell

C10_Witness ==
    /\ module = "rc_refcell_graph" /\ stack # <<>>
    /\ cell[NodeOf("A")].readers = 2
    /\ Top.node = NodeOf("A") /\ Len(stack) = 3

----------------------------------------------------------------------------
(* Reference definitions for traversals of an arbitrary graph.             *)

Start == handles["g"]

\* Every traversal of the running program has returned.
ReturnedTwice == outcome = "running" /\ stack = <<>> /\ pc > LastTraverseAt

\* The nodes reachable from n along edges.
RECURSIVE ReachFrom(_)
ReachFrom(S) ==
    LET T == S \cup UNION {Range(heap[m].edges) : m \in S}
    IN  IF T = S THEN S ELSE ReachFrom(T)

Reachable(n) == ReachFrom({n})

\* Pre-order depth-first search from n, edges in list order, with one
\* visited list acc for the whole search; key(m) is what identifies a node.
RECURSIVE Dfs(_, _, _)
RECURSIVE DfsEdges(_, _, _)
Dfs(n, acc, byDatum) ==
    IF \E i \in DOMAIN acc :
          IF byDatum THEN heap[acc[i]].datum = heap[n].datum ELSE acc[i] = n
    THEN acc
    ELSE DfsEdges(heap[n].edges, Append(acc, n), byDatum)

DfsEdges(es, acc, byDatum) ==
    IF es = <<>> THEN acc
    ELSE DfsEdges(Tail(es), Dfs(Head(es), acc, byDatum), byDatum)

DataOf(ns) == [i \in DOMAIN ns |-> heap[ns[i]].datum]

NoRepeat(sq) == \A i, j \in DOMAIN sq : sq[i] = sq[j] => i = j

\* No two nodes reachable from n carry the same datum.
DistinctData(n) ==
    \A x, y \in Reachable(n) : heap[x].datum = heap[y].datum => x = y

(* C2 as claimed: whatever the data, when traverse returns the visitor has *)
(* been called exactly once on every node reachable from the start node,   *)
(* in pre-order depth-first order.                                         *)
C2_PerNode ==
    Traversed =>
        /\ visited = Dfs(Start, <<>>, FALSE)
        /\ Range(visited) = Reachable(Start)
        /\ NoRepeat(visited)

(* C2 amended: the visited set is keyed by datum.  When the nodes          *)
(* reachable from the start node carry distinct data, the visitor is       *)
(* called exactly once on each of them, in pre-order depth-first order,    *)
(* edges in list order.  In general the visitor is called on the nodes a   *)
(* depth-first search that takes equal data for the same node reaches:     *)
(* never twice on the same node or datum, and not at all on a node whose   *)
(* datum was visited before it was reached.                                *)
C2_PerDatum ==
    /\ NoRepeat(visits) /\ NoRepeat(visited) /\ visits = DataOf(visited)
    /\ Range(visited) \subseteq Reachable(Start)
    /\ stack # <<>> => IsPrefix(visited, Dfs(Start, <<>>, TRUE))
    /\ Traversed =>
          /\ visited = Dfs(Start, <<>>, TRUE)
          /\ DistinctData(Start) =>
                /\ visited = Dfs(Start, <<>>, FALSE)
                /\ Range(visited) = Reachable(Start)

\* Distinct data, and a node reached along two paths.
C2_Witness ==
    /\ Traversed /\ DistinctData(Start)
    /\ Len(visited) >= 3
    /\ \E n \in Nodes \ {Start} :
          Cardinality({m \in Nodes : n \in Range(heap[m].edges)}) >= 2

(* C3: traverse terminates on every finite graph.  Every call entered      *)
(* returns to the caller; the recursion never exhausts the stack; a call   *)
(* that passes the test adds one new datum to seen, and the depth of the   *)
(* recursion is at most one more than the size of seen.                    *)
C3_Terminates ==
    /\ [](outcome # "StackOverflow")
    /\ [](Len(stack) <= Cardinality(seen) + 1)
    /\ [][(stack # <<>> /\ Top.at = "insert")
             => Cardinality(seen') = Cardinality(seen) + 1]_vars
    /\ [][(stack # <<>> /\ Top.at = "check"
             /\ heap[Top.node].datum \in seen) => Len(stack') = Len(stack) - 1]_vars
    /\ (stack # <<>>) ~> (stack = <<>>)
    /\ <>ReturnedTwice

\* A start node on a self-loop and on a longer cycle; traverse has returned.
C3_Witness ==
    /\ ReturnedTwice
    /\ Start \in Range(heap[Start].edges)
    /\ \E n \in Nodes \ {Start} :
          n \in Range(heap[Start].edges) /\ Start \in Range(heap[n].edges)

(* C4 as claimed: first on a node without edges gives the caller an        *)
(* explicit, recoverable EmptyEdgeList result, never an out-of-bounds      *)
(* fault; on a node with edges it gives the target at position 0.          *)
C4_FirstRecoverable ==
    /\ outcome # "IndexOutOfBounds"
    /\ pc > Len(Program(module)) =>
          IF heap[Start].edges = <<>>
          THEN outcome = "EmptyEdgeList"
          ELSE handles["f"] = heap[Start].edges[1]

(* C7: one writer xor many readers.  No node ever has two RefMut, or a     *)
(* RefMut together with a Ref.  While a node has a live Ref - while it is  *)
(* on the call stack of traverse - its edge list does not change and no    *)
(* borrow_mut of it succeeds; the attempt panics (BorrowMutError), and the *)
(* panic leaves every edge list and every count as it was.                 *)
C7_WriterXorReaders ==
    /\ [](\A n \in DOMAIN heap :
            /\ cell[n].readers >= 0 /\ cell[n].writers \in {0, 1}
            /\ cell[n].writers = 1 => cell[n].readers = 0)
    /\ [](\A i \in DOMAIN stack : cell[stack[i].node].readers >= 1)
    /\ [][\A n \in DOMAIN heap :
            cell[n].readers > 0 =>
                /\ heap'[n].edges = heap[n].edges
                /\ cell'[n].writers = 0]_vars
    /\ [][(outcome = "running" /\ outcome' = "BorrowMutError")
             => heap' = heap /\ cell' = cell /\ guards' = guards]_vars
    /\ [][(\E n \in DOMAIN heap : VisitBorrowMut(n) /\ cell[n].readers > 0)
             => outcome' = "BorrowMutError"]_vars

\* The visitor tried to add an edge to a node on the call stack, two calls
\* deep, and the panic has unwound the traversal.
C7_Witness ==
    /\ outcome = "BorrowMutError" /\ stack = <<>> /\ Len(visits) = 2
    /\ TotalEdges = InitEdges

(* C8: fail fast.  When the visitor panics the visitor is called on no     *)
(* further node, every step that follows unwinds one frame, and seen stays *)
(* as it was: the data the visitor returned on, without the one it         *)
(* panicked on.                                                            *)
C8_FailFast ==
    /\ [](outcome = "VisitorFailure" =>
            /\ Len(failed) = 1
            /\ failed[1] \notin seen
            /\ seen = Range(visits))
    /\ [][outcome = "VisitorFailure" =>
            /\ visits' = visits /\ visited' = visited /\ seen' = seen
            /\ outcome' = outcome /\ failed' = failed
            /\ stack' = Front(stack)]_vars
    /\ [][(outcome = "running" /\ outcome' = "VisitorFailure") =>
            /\ seen' = seen /\ visits' = visits /\ stack' = stack
            /\ failed' = <<heap[Top.node].datum>>]_vars

\* The visitor panicked on the third node, with an edge still to follow.
C8_Witness ==
    /\ outcome = "VisitorFailure" /\ stack = <<>>
    /\ Len(visits) = 2 /\ Cardinality(seen) = 2
    /\ Len(heap[Start].edges) >= 2

(* C9: traverse only reads the graph.  While a traversal runs no datum, no *)
(* edge list, no strong count, no handle changes and nothing is freed; when *)
(* it returns the RefCell counts are back too; and the second traversal    *)
(* from the same start node, with a fresh seen set, calls the visitor on   *)
(* the same data in the same order as the first.                           *)
C9_ReadOnly ==
    /\ [][stack # <<>> =>
            /\ heap' = heap /\ freed' = freed /\ handles' = handles
            /\ \A n \in DOMAIN heap : cell'[n].strong = cell[n].strong]_vars
    /\ []((Traversed /\ pc \in {TraverseAt + 1, LastTraverseAt + 1})
             => cell = before.cell)
    /\ [](ReturnedTwice => visits = before.visits)

C9_Witness ==
    /\ ReturnedTwice /\ Len(visits) = MaxNodes /\ visits = before.visits
    /\ Start \in UNION {Range(heap[n].edges) : n \in Nodes}

====
